---- MODULE Spec2Model ----
(***************************************************************************)
(* A model of the football prediction pipeline: the SQLite store           *)
(* (database.py), the classifier life cycle (model.py), the API client's   *)
(* retry loop (datafetcher.py), the process start and the orchestrator's   *)
(* run loop (football_prediction_system.py, feature_engineering.py).       *)
(*                                                                         *)
(* Conventions.  A nullable SQL column / Python Optional is a sequence of  *)
(* length at most one: <<>> is NULL / None, <<v>> is the value v.          *)
(* A Python dict is a sequence of <<key, value>> pairs in insertion order;  *)
(* the scalars of a dict that is serialised to JSON are written as their   *)
(* JSON text ("39" for 39).                                                *)
(***************************************************************************)
EXTENDS Integers, Sequences, FiniteSets, TLC

VARIABLES
    predictions,   \* the predictions table: a set of rows
    cache,         \* the cache table: rows in rowid (insertion) order
    writes,        \* history: the arguments and clock reading of every
                   \* cache_data call, in call order
    last,          \* the last call made on the store: its arguments, what it
                   \* found and what it returned
    all_data,      \* FootballPredictionSystem.all_data: the pre-fetched snapshot
    clf,           \* PredictionModel.model: None or a fitted classifier
    scaler,        \* PredictionModel.scaler
    pc,            \* where the run() coroutine stands
    ready,         \* the event loop's FIFO queue of callbacks
    status,        \* the league and fixture tasks of the cycle
    outer,         \* the futures of the asyncio.gather calls, by awaiting task
    cyc,           \* history: what the current cycle has done so far
    feature_importance,  \* the feature_importance table, in rowid order
    appended,      \* history: the frames passed to store_feature_importance
    files,         \* the joblib files next to the database: model and scaler
    football_data, \* feature_engineering's module global, once it is loaded
    fetch          \* datafetcher.get_data: the call in progress and its trace

storeVars == <<predictions, cache, writes, last, feature_importance, appended>>
modelVars == <<clf, scaler, files>>
loopVars == <<pc, ready, status, outer, cyc>>
hostVars == <<football_data, fetch>>
runVars == <<all_data, clf, scaler, files, pc, ready, status, outer, cyc, hostVars>>
vars == <<predictions, cache, writes, last, all_data, clf, scaler, pc, ready,
          status, outer, cyc, feature_importance, appended, files,
          football_data, fetch>>

----------------------------------------------------------------------------
(* Bounds of the model and the small input domains.                        *)

MaxCache == 3
MaxFixtures == 2
MaxSnapshots == 2
MaxMatches == 3

NULL == <<>>
Some(v) == <<v>>

FixtureIds == {1, 2}
LeagueIds == {0, 39}
Outcomes == {"H", "A"}
Probs == {90}
HomeTeams == {"Arsenal"}
AwayTeams == {"Chelsea"}

\* weather_data arguments: a partial observation (no precipitation reading)
WeatherInputs ==
    { << <<"temp_c", 20>>, <<"wind_kph", 10>> >> }

----------------------------------------------------------------------------
(* Python and SQLite helpers.                                              *)

\* dict.get(key): the value of the key, None when the key is absent
DictGet(d, k) ==
    IF \E i \in 1..Len(d) : d[i][1] = k
    THEN Some(d[CHOOSE i \in 1..Len(d) : d[i][1] = k][2])
    ELSE NULL

\* readings of the wall clock datetime.now(): whole seconds and microseconds
Times == {[s |-> 0, us |-> 0], [s |-> 0, us |-> 5], [s |-> 1, us |-> 0]}

\* datetime.isoformat(): the microsecond part is left out when it is zero
IsoFormat(t) == IF t.us = 0 THEN <<t.s>> ELSE <<t.s, t.us>>

\* SQLite compares TEXT values bytewise: lexicographic, a proper prefix first
RECURSIVE TextLess(_, _)
TextLess(a, b) ==
    IF Len(b) = 0 THEN FALSE
    ELSE IF Len(a) = 0 THEN TRUE
    ELSE IF Head(a) # Head(b) THEN Head(a) < Head(b)
    ELSE TextLess(Tail(a), Tail(b))

----------------------------------------------------------------------------
(* The predictions table.                                                  *)

\* a plain INSERT into a table without the primary key
InsertNoKey(table, row) == table \cup {row}

\* INSERT OR REPLACE on fixture_id INTEGER PRIMARY KEY: a row with the same
\* key is deleted before the new row is inserted
InsertOrReplace(table, row) ==
    {r \in table : r.fixture_id # row.fixture_id} \cup {row}

\* the row store_prediction writes: actual_outcome and accuracy are not in the
\* column list, so they take their default, NULL
PredictionRow(fixture_id, league_id, home_team, away_team, predicted_outcome, probability, weather_data, now) ==
    [fixture_id |-> fixture_id, league_id |-> league_id,
     home_team |-> home_team, away_team |-> away_team,
     predicted_outcome |-> Some(predicted_outcome),
     actual_outcome |-> NULL,
     probability |-> probability,
     accuracy |-> NULL,
     temperature |-> DictGet(weather_data, "temp_c"),
     wind_speed |-> DictGet(weather_data, "wind_kph"),
     precipitation |-> DictGet(weather_data, "precip_mm"),
     timestamp |-> IsoFormat(now)]

\* what the table holds for a fixture id: no row, a row without an actual
\* outcome, or a row with one
RowState(table, fixture_id) ==
    IF ~ \E r \in table : r.fixture_id = fixture_id THEN "absent"
    ELSE IF \E r \in table : r.fixture_id = fixture_id /\ r.actual_outcome # NULL
         THEN "graded"
         ELSE "ungraded"

store_prediction(fixture_id, league_id, home_team, away_team, predicted_outcome, probability, weather_data, now) ==
    /\ predictions' = InsertOrReplace(predictions,
            PredictionRow(fixture_id, league_id, home_team, away_team,
                          predicted_outcome, probability, weather_data, now))
    /\ last' = [op |-> "store_prediction", fixture_id |-> fixture_id,
                had |-> RowState(predictions, fixture_id)]
    /\ UNCHANGED <<cache, writes, feature_importance, appended>>
    /\ UNCHANGED runVars

\* an update that also creates the row of a fixture id it does not find
GradeOrCreate(table, fixture_id, actual_outcome) ==
    IF \E r \in table : r.fixture_id = fixture_id
    THEN {IF r.fixture_id = fixture_id
          THEN [r EXCEPT !.actual_outcome = actual_outcome,
                         !.accuracy = Some(IF r.predicted_outcome = actual_outcome
                                           THEN 1 ELSE 0)]
          ELSE r : r \in table}
    ELSE table \cup {[fixture_id |-> fixture_id, league_id |-> 0,
                      home_team |-> "", away_team |-> "",
                      predicted_outcome |-> NULL,
                      actual_outcome |-> actual_outcome,
                      probability |-> 0, accuracy |-> Some(0),
                      temperature |-> NULL, wind_speed |-> NULL,
                      precipitation |-> NULL, timestamp |-> <<0>>]}

\* SELECT predicted_outcome ... WHERE fixture_id=?; if a row is found,
\* UPDATE ... SET actual_outcome=?, accuracy=? WHERE fixture_id=?
Grade(table, fixture_id, actual_outcome) ==
    {IF r.fixture_id = fixture_id
     THEN [r EXCEPT !.actual_outcome = actual_outcome,
                    !.accuracy = Some(IF r.predicted_outcome = actual_outcome
                                      THEN 1 ELSE 0)]
     ELSE r : r \in table}

update_prediction_accuracy(fixture_id, actual_outcome) ==
    /\ predictions' = Grade(predictions, fixture_id, actual_outcome)
    /\ last' = [op |-> "update_prediction_accuracy", fixture_id |-> fixture_id,
                had |-> RowState(predictions, fixture_id)]
    /\ UNCHANGED <<cache, writes, feature_importance, appended>>
    /\ UNCHANGED runVars

\* a row counts as graded when its actual_outcome IS NOT NULL
Graded(table) == {r \in table : r.actual_outcome # NULL}

\* SELECT * FROM predictions WHERE actual_outcome IS NOT NULL
get_historical_data == Graded(predictions)

RECURSIVE SumAccuracy(_)
SumAccuracy(rows) ==
    IF rows = {} THEN 0
    ELSE LET r == CHOOSE x \in rows : TRUE
         IN r.accuracy[1] + SumAccuracy(rows \ {r})

\* SQL AVG(accuracy): NULL values are skipped, NULL when nothing is left;
\* a non-NULL average is the fraction n/d
SqlAvg(rows) ==
    LET vals == {r \in rows : r.accuracy # NULL}
    IN IF vals = {} THEN NULL
       ELSE Some([n |-> SumAccuracy(vals), d |-> Cardinality(vals)])

\* Python truthiness of an Optional[int]: None and 0 are false
Truthy(x) == x # NULL /\ x[1] # 0


\* the test of "if league_id:"
LeagueFilterOn(league_id) == Truthy(league_id)

get_prediction_accuracy(league_id) ==
    LET avg == IF LeagueFilterOn(league_id)
               THEN SqlAvg({r \in Graded(predictions) : r.league_id = league_id[1]})
               ELSE SqlAvg(Graded(predictions))
    IN IF avg # NULL THEN avg[1] ELSE [n |-> 0, d |-> 1]

----------------------------------------------------------------------------
(* The cache table.                                                        *)

Endpoints == {"standings"}
\* the same parameters as two dicts that differ in insertion order
ParamsInputs ==
    { << <<"league", "39">>, <<"season", "2023">> >>,
      << <<"season", "2023">>, <<"league", "39">> >> }
Payloads == { << <<"results", "1">> >>, << <<"results", "2">> >> }
WeatherFixtures == {1}
WeatherPayloads == { << <<"condition", "Sunny">> >> }

\* json.dumps of a dict: the items in the dict's insertion order (no
\* sort_keys), as a sequence of tokens
RECURSIVE JsonItems(_)
JsonItems(d) ==
    IF d = <<>> THEN <<>>
    ELSE <<d[1][1], ":", d[1][2]>> \o (IF Len(d) > 1 THEN <<",">> ELSE <<>>)
         \o JsonItems(Tail(d))

JsonDumps(d) == <<"{">> \o JsonItems(d) \o <<"}">>

\* json.loads of an object text: the items in the order of the text
RECURSIVE JsonParseItems(_)
JsonParseItems(toks) ==
    IF Len(toks) < 3 THEN <<>>
    ELSE << <<toks[1], toks[3]>> >>
         \o JsonParseItems(SubSeq(toks, 5, Len(toks)))

JsonLoads(text) == JsonParseItems(SubSeq(text, 2, Len(text) - 1))

\* INSERT INTO cache VALUES (endpoint, json.dumps(params), json.dumps(data),
\* datetime.now().isoformat())
CacheRow(endpoint, params, data, now) ==
    [endpoint |-> endpoint, params |-> JsonDumps(params),
     data |-> JsonDumps(data), timestamp |-> IsoFormat(now)]

cache_data(endpoint, params, data, now) ==
    /\ Len(cache) < MaxCache
    /\ cache' = Append(cache, CacheRow(endpoint, params, data, now))
    /\ writes' = Append(writes, [endpoint |-> endpoint, params |-> params,
                                 data |-> data, now |-> now])
    /\ last' = [op |-> "cache_data"]
    /\ UNCHANGED <<predictions, feature_importance, appended>>
    /\ UNCHANGED runVars

\* WHERE endpoint=? AND params=?: the rowids of the matching rows
Matching(endpoint, params) ==
    {i \in 1..Len(cache) : /\ cache[i].endpoint = endpoint
                           /\ cache[i].params = JsonDumps(params)}

\* ORDER BY timestamp ASC LIMIT 1
FirstByTimestampAsc(ids) ==
    {i \in ids : \A j \in ids : ~ TextLess(cache[j].timestamp, cache[i].timestamp)}

\* ORDER BY timestamp DESC LIMIT 1: a row no other row follows in the order;
\* SQLite leaves open which of several rows with equal timestamps comes first
FirstByTimestampDesc(ids) ==
    {i \in ids : \A j \in ids : ~ TextLess(cache[i].timestamp, cache[j].timestamp)}

\* what get_cached_data may return: json.loads(result[0]) if result else None
CachedResults(endpoint, params) ==
    IF Matching(endpoint, params) = {} THEN {NULL}
    ELSE {Some(JsonLoads(cache[i].data)) :
              i \in FirstByTimestampDesc(Matching(endpoint, params))}

get_cached_data(endpoint, params) ==
    /\ \E result \in CachedResults(endpoint, params) :
          last' = [op |-> "get_cached_data", endpoint |-> endpoint,
                   params |-> params, result |-> result]
    /\ UNCHANGED <<predictions, cache, writes, feature_importance, appended>>
    /\ UNCHANGED runVars

\* params = {'fixture_id': fixture_id}
WeatherParams(fixture_id) == << <<"fixture_id", ToString(fixture_id)>> >>

cache_weather_data(fixture_id, weather_data, now) ==
    cache_data("weather", WeatherParams(fixture_id), weather_data, now)

get_cached_weather_data(fixture_id) ==
    get_cached_data("weather", WeatherParams(fixture_id))

CacheData ==
    \E e \in Endpoints, p \in ParamsInputs, d \in Payloads, now \in Times :
        cache_data(e, p, d, now)

GetCachedData ==
    \E e \in Endpoints, p \in ParamsInputs : get_cached_data(e, p)

CacheWeatherData ==
    \E f \in WeatherFixtures, d \in WeatherPayloads, now \in Times :
        cache_weather_data(f, d, now)

GetCachedWeatherData ==
    \E f \in WeatherFixtures : get_cached_weather_data(f)

NextCache ==
    CacheData \/ GetCachedData \/ CacheWeatherData \/ GetCachedWeatherData

----------------------------------------------------------------------------
(* The feature_importance table.                                           *)

\* frames of importances as get_feature_importance of the classifier builds
\* them: one <<feature, importance>> row per feature, the largest first
ImportanceFrames ==
    { << <<"probability", 100>> >>,
      << <<"probability", 60>>, <<"temperature", 40>> >>,
      << <<"temperature", 70>>, <<"probability", 30>> >> }

\* clock reading a is not after clock reading b
NotAfter(a, b) == a.s < b.s \/ (a.s = b.s /\ a.us <= b.us)

\* the readings datetime.now() may give in n successive calls, none of them
\* before the given reading: the clock does not run backwards
ClockReadings(n, since) ==
    {nows \in [1..n -> Times] :
        /\ \A i \in 1..n : NotAfter(since, nows[i])
        /\ \A i \in 1..n, j \in 1..n : i <= j => NotAfter(nows[i], nows[j])}

\* the rows store_feature_importance inserts: one INSERT per row of the
\* frame, each with its own datetime.now().isoformat()
FeatureImportanceRows(fi, nows) ==
    [i \in 1..Len(fi) |-> [feature |-> fi[i][1], importance |-> fi[i][2],
                           timestamp |-> IsoFormat(nows[i])]]

store_feature_importance(fi, nows) ==
    /\ feature_importance' = feature_importance \o FeatureImportanceRows(fi, nows)
    /\ appended' = Append(appended, [frame |-> fi, nows |-> nows])
    /\ last' = [op |-> "store_feature_importance"]
    /\ UNCHANGED <<predictions, cache, writes>>
    /\ UNCHANGED runVars

\* ORDER BY timestamp DESC LIMIT 1 on the whole table: one row that no other
\* row follows in the order of the timestamp texts
FirstImportanceRows ==
    {i \in 1..Len(feature_importance) :
        \A j \in 1..Len(feature_importance) :
            ~ TextLess(feature_importance[i].timestamp,
                       feature_importance[j].timestamp)}

\* the frames get_feature_importance may return: the columns feature and
\* importance of the selected row, no row for an empty table
ImportanceResults ==
    IF feature_importance = <<>> THEN {<<>>}
    ELSE {<< <<feature_importance[i].feature, feature_importance[i].importance>> >> :
              i \in FirstImportanceRows}

get_feature_importance ==
    /\ \E result \in ImportanceResults :
          last' = [op |-> "get_feature_importance", result |-> result]
    /\ UNCHANGED <<predictions, cache, writes, feature_importance, appended>>
    /\ UNCHANGED runVars

\* the reading of the clock at the last insert so far
LastReading ==
    IF appended = <<>> THEN [s |-> 0, us |-> 0]
    ELSE LET a == appended[Len(appended)] IN a.nows[Len(a.nows)]

StoreFeatureImportance ==
    /\ Len(appended) < MaxSnapshots
    /\ \E fi \in ImportanceFrames :
         \E nows \in ClockReadings(Len(fi), LastReading) :
            store_feature_importance(fi, nows)

GetFeatureImportance == get_feature_importance

NextImportance == StoreFeatureImportance \/ GetFeatureImportance

----------------------------------------------------------------------------
(* The classifier and its scaler (model.py).                               *)

\* the FeatureVector fields, in the order feature_engineering builds them
FeatureColumns ==
    <<"home_team_rank", "away_team_rank", "home_team_form", "away_team_form",
      "home_team_injuries", "away_team_injuries", "home_team_goal_diff",
      "away_team_goal_diff", "home_team_clean_sheets", "away_team_clean_sheets",
      "home_team_attack", "away_team_attack", "home_team_defense",
      "away_team_defense", "home_team_recent_performance",
      "away_team_recent_performance">>

\* the columns of the predictions table, in schema order
PredictionColumns ==
    <<"fixture_id", "league_id", "home_team", "away_team", "predicted_outcome",
      "actual_outcome", "probability", "accuracy", "temperature", "wind_speed",
      "precipitation", "timestamp">>

\* the columns update_model and evaluate_predictions drop from the table
DroppedColumns ==
    {"fixture_id", "league_id", "home_team", "away_team", "predicted_outcome",
     "actual_outcome", "accuracy", "timestamp"}

\* DataFrame.drop(columns, axis=1): the remaining columns, order kept
RECURSIVE DropColumns(_, _)
DropColumns(cols, dropped) ==
    IF cols = <<>> THEN <<>>
    ELSE (IF Head(cols) \in dropped THEN <<>> ELSE <<Head(cols)>>)
         \o DropColumns(Tail(cols), dropped)

\* X of update_model: historical_data.drop([...], axis=1)
TrainColumns == DropColumns(PredictionColumns, DroppedColumns)

\* a fitted estimator: the columns it was fitted on and where it comes from
Fitted(cols, origin) == Some([cols |-> cols, origin |-> origin])

\* what predict(X) raises for a frame with the given columns, "" when it
\* returns: scaler.transform fails on an unfitted scaler and on a frame of
\* other columns, self.model.predict_proba fails when self.model is None
PredictRaises(cols) ==
    IF scaler = NULL THEN "NotFittedError"
    ELSE IF scaler[1].cols # cols THEN "ValueError"
    ELSE IF clf = NULL THEN "AttributeError"
    ELSE IF clf[1].cols # cols THEN "ValueError"
    ELSE ""

\* the steps of train(X, y) that may fail, in order, and "ok"
TrainOutcomes ==
    {"train_test_split", "grid_search", "metrics", "save_model", "save_scaler",
     "ok"}

\* self.scaler after train: fit_transform refits the scaler object in place
\* as soon as the split has succeeded
ScalerAfterTrain(outcome, cols) ==
    IF outcome = "train_test_split" THEN scaler ELSE Fitted(cols, "train")

\* self.model after train: assigned once the grid search has succeeded
ClfAfterTrain(outcome, cols) ==
    IF outcome \in {"train_test_split", "grid_search"} THEN clf
    ELSE Fitted(cols, "train")

\* the exception a failing step of train raises
TrainRaises(outcome) ==
    IF outcome = "ok" THEN ""
    ELSE IF outcome \in {"save_model", "save_scaler"} THEN "OSError"
    ELSE "ValueError"

\* get_feature_importance after train: the estimator was fitted on the
\* scaler's output, an array without column names, so it has no
\* feature_names_in_ attribute
FeatureImportanceRaises == "AttributeError"

\* a joblib file that does not unpickle
Corrupt == Some([cols |-> <<>>, origin |-> "corrupt"])

\* joblib.load(path) returns the estimator of the file
Loads(file) == file # NULL /\ file[1].origin # "corrupt"

\* os.path.exists(self.model_path) and os.path.exists(self.scaler_path)
BothExist(fs) == fs.model # NULL /\ fs.scaler # NULL

\* a handler that leaves self.model as the failed load left it
KeepsLoaded(loaded) == loaded

\* except Exception as e: ... self.model = None
ClfAfterLoadError(loaded) == NULL

\* self.model after load_model: untouched when a file is missing, None when
\* a joblib.load raised, the classifier of the file otherwise
ClfAfterLoad(fs, current) ==
    IF ~ BothExist(fs) THEN current
    ELSE IF ~ Loads(fs.model) THEN ClfAfterLoadError(current)
    ELSE IF ~ Loads(fs.scaler) THEN ClfAfterLoadError(fs.model)
    ELSE fs.model

\* self.scaler after load_model: assigned only when both loads returned
ScalerAfterLoad(fs, current) ==
    IF BothExist(fs) /\ Loads(fs.model) /\ Loads(fs.scaler) THEN fs.scaler
    ELSE current

\* the files after train: save_model dumps the classifier, then the scaler;
\* a dump that raises leaves its file as it was or cut short
FilesAfterTrain(outcome, cols) ==
    IF outcome = "ok"
    THEN {[files EXCEPT !.model = Fitted(cols, "train"),
                        !.scaler = Fitted(cols, "train")]}
    ELSE IF outcome = "save_scaler"
    THEN {[files EXCEPT !.model = Fitted(cols, "train")],
          [files EXCEPT !.model = Fitted(cols, "train"), !.scaler = Corrupt]}
    ELSE IF outcome = "save_model"
    THEN {files, [files EXCEPT !.model = Corrupt]}
    ELSE {files}

----------------------------------------------------------------------------
(* The API client (datafetcher.py): get_data and rate_limit_delay.         *)

MAX_RETRIES == 3

\* the endpoints get_data is called with
FetchEndpoints == {"fixtures", "standings"}

\* the JSON bodies of a 2xx response
ResponseBodies == {"{}", "{response: [...]}"}

\* what requests.get, raise_for_status and response.json raise
RequestErrors == {"HTTPError", "ConnectionError", "JSONDecodeError"}

\* what one attempt may come to: a 2xx response with a JSON body, one of the
\* errors, or no answer at all (requests.get is called without a timeout)
AttemptOutcomes == {"ok", "no_answer"} \cup RequestErrors

\* except HTTPError / except requests.RequestException: the second clause
\* takes every error of the requests library
CaughtByGetData(e) == e \in RequestErrors

\* no call of get_data in progress
IdleFetch ==
    [pc |-> "idle", endpoint |-> "", attempt |-> 0, trace |-> <<>>,
     result |-> NULL, raised |-> ""]

\* get_data(endpoint, params) is called: the loop starts with attempt 0
GetData ==
    /\ fetch.pc \in {"idle", "returned", "raised"}
    /\ \E e \in FetchEndpoints :
          fetch' = [IdleFetch EXCEPT !.pc = "request", !.endpoint = e]
    /\ UNCHANGED <<storeVars, all_data, modelVars, loopVars, football_data>>

\* requests.get(url, headers=headers, params=params) is sent
SendRequest ==
    /\ fetch.pc = "request"
    /\ fetch' = [fetch EXCEPT !.pc = "waiting", !.trace = Append(@, "request")]
    /\ UNCHANGED <<storeVars, all_data, modelVars, loopVars, football_data>>

\* the attempt ends: return data, or one of the except clauses; the last
\* HTTPError returns None at once, every other caught error falls through to
\* rate_limit_delay
Response ==
    /\ fetch.pc = "waiting"
    /\ \E o \in AttemptOutcomes, body \in ResponseBodies :
          fetch' =
            IF o = "no_answer" THEN [fetch EXCEPT !.pc = "blocked"]
            ELSE IF o = "ok"
            THEN [fetch EXCEPT !.pc = "returned", !.result = Some(body),
                               !.trace = Append(@, "ok")]
            ELSE IF ~ CaughtByGetData(o)
            THEN [fetch EXCEPT !.pc = "raised", !.raised = o,
                               !.trace = Append(@, o)]
            ELSE IF o = "HTTPError" /\ fetch.attempt + 1 = MAX_RETRIES
            THEN [fetch EXCEPT !.pc = "returned", !.result = NULL,
                               !.trace = Append(@, o)]
            ELSE [fetch EXCEPT !.pc = "delay", !.trace = Append(@, o)]
    /\ UNCHANGED <<storeVars, all_data, modelVars, loopVars, football_data>>

\* rate_limit_delay(): time.sleep(RATE_LIMIT), then the next attempt of the
\* range, or return None when the range is used up
RateLimitDelay ==
    /\ fetch.pc = "delay"
    /\ fetch' = [fetch EXCEPT !.trace = Append(@, "delay"),
                              !.attempt = @ + 1,
                              !.pc = IF fetch.attempt + 1 = MAX_RETRIES
                                     THEN "returned" ELSE "request"]
    /\ UNCHANGED <<storeVars, all_data, modelVars, loopVars, football_data>>

NextFetch == GetData \/ SendRequest \/ Response \/ RateLimitDelay

----------------------------------------------------------------------------
(* The orchestrator (football_prediction_system.py).                       *)

\* TOP_LEAGUES.keys(), in the order of the dict
TopLeagues == <<39, 140, 78, 61, 135, 94>>

\* tasks are named by their path: <<>> is run(), <<l>> the process_league
\* task of league l, <<l, k>> its process_fixture task of the k-th fixture
MainTask == <<>>
LeagueTask(l) == <<l>>
FixtureTask(l, k) == <<l, k>>
Parent(t) == SubSeq(t, 1, Len(t) - 1)

\* the fixtures of the snapshot: for each, whether the record has the nested
\* fields process_fixture reads and the team statistics can be looked up
ResponseLists == UNION {[1..n -> BOOLEAN] : n \in 0..MaxFixtures}

\* all_data.get('fixtures', {}): an empty dict, a dict without 'response',
\* or a dict with a 'response' list
FixturesInputs ==
    {[kind |-> "empty", response |-> <<>>],
     [kind |-> "no_response", response |-> <<>>]}
    \cup {[kind |-> "response", response |-> r] : r \in ResponseLists}

StandingsInputs == {"empty", "present"}

\* the exceptions "except Exception" catches
ExceptionClasses ==
    {"KeyError", "TypeError", "ValueError", "AttributeError", "NotFittedError",
     "OSError", "UnpicklingError"}

\* a handler that names one exception class only
CaughtOnlyValueError(e) == e = "ValueError"

\* except Exception as e:
CaughtByRun(e) == e \in ExceptionClasses

\* store_prediction(self, fixture_id, league_id, home_team, away_team,
\* predicted_outcome, probability, weather_data): required arguments
StorePredictionParams == 7
\* the arguments process_fixture passes to it
StorePredictionArgs == 6

\* get_historical_data(self): the keyword arguments it accepts
HistoricalDataKeywords == {}

\* a call of get_historical_data with the given keyword arguments
\* (name -> value pairs): a TypeError for a keyword the function does not have
GetHistoricalDataCall(kwargs) ==
    IF \E i \in 1..Len(kwargs) : kwargs[i][1] \notin HistoricalDataKeywords
    THEN [raised |-> "TypeError", rows |-> {}]
    ELSE [raised |-> "", rows |-> get_historical_data]

\* what process_fixture raises for a fixture, "" when it returns: reading
\* the fixture and the team statistics, engineer_features, predict, and the
\* store_prediction call
ProcessFixtureRaises(ok) ==
    IF ~ok THEN "KeyError"
    ELSE IF PredictRaises(FeatureColumns) # "" THEN PredictRaises(FeatureColumns)
    ELSE IF StorePredictionArgs # StorePredictionParams THEN "TypeError"
    ELSE ""

Callback(kind, task) == [kind |-> kind, task |-> task]

TaskState(st, exc) == [st |-> st, exc |-> exc]

\* the history of a cycle that has just started
FreshCycle ==
    [op |-> "cycle", not_ready |-> FALSE, retrain |-> "pending",
     evaluate |-> "pending", caught |-> "", fetched |-> <<>>, stored |-> {},
     snapshots |-> 0]

\* a condition that is met by either of the two results
FixturesOrStandings(fx, st) == fx.kind # "empty" \/ st # "empty"

\* if fixtures and standings: neither result is None or an empty dict
FixturesAndStandings(fx, st) == fx.kind # "empty" /\ st # "empty"

\* gather's result is set when the last of its children is done
AllDone(n, total) == n = total

\* the tables of the database file when the process starts: empty, or with
\* a graded prediction written by an earlier use of the store
InitialTables ==
    { {},
      Grade(InsertOrReplace({}, PredictionRow(1, 39, "Arsenal", "Chelsea", "H", 90, <<>>, [s |-> 0, us |-> 0])), 1, Some("H")) }

\* PredictionModel.__init__ / load_model: no model when a file is missing,
\* otherwise the classifier and scaler of the files
LoadedModels ==
    {<<NULL, NULL>>}
    \cup {<<Fitted(c, "disk"), Fitted(c, "disk")>> : c \in {FeatureColumns, TrainColumns}}

\* await self.predict_matches_for_all_leagues(): gather wraps one
\* process_league coroutine per league in a task and run() waits for them
RunCycle ==
    /\ pc = "start"
    /\ pc' = "gather"
    /\ status' = [t \in {LeagueTask(TopLeagues[i]) : i \in 1..Len(TopLeagues)}
                     |-> TaskState("scheduled", "")]
    /\ ready' = ready \o [i \in 1..Len(TopLeagues)
                              |-> Callback("step", LeagueTask(TopLeagues[i]))]
    /\ outer' = (MainTask :> [st |-> "pending", exc |-> "", n |-> 0,
                              total |-> Len(TopLeagues)])
    /\ cyc' = FreshCycle
    /\ UNCHANGED <<storeVars, all_data, hostVars, modelVars>>

\* the event loop runs the callback at the head of its queue while run() is
\* suspended in gather or in sleep
LoopTurn(kind, depth) ==
    /\ pc \in {"gather", "sleep"}
    /\ ready # <<>>
    /\ Head(ready).kind = kind
    /\ Len(Head(ready).task) = depth

\* process_league up to its gather: fetch fixtures and standings; with both,
\* start one process_fixture task per fixture and wait; otherwise log and
\* return
LeagueStep ==
    /\ LoopTurn("step", 1)
    /\ LET t == Head(ready).task
           fx == all_data.fixtures
           both == FixturesAndStandings(fx, all_data.standings)
           n == Len(fx.response)
       IN IF both /\ fx.kind = "response" /\ n > 0
          THEN /\ status' = [status EXCEPT ![t] = TaskState("waiting", "")]
                              @@ [c \in {FixtureTask(t[1], k) : k \in 1..n}
                                     |-> TaskState("scheduled", "")]
               /\ ready' = Tail(ready)
                              \o [k \in 1..n |-> Callback("step", FixtureTask(t[1], k))]
               /\ outer' = outer @@ (t :> [st |-> "pending", exc |-> "", n |-> 0,
                                           total |-> n])
          ELSE /\ status' = [status EXCEPT ![t] =
                                IF both /\ fx.kind = "no_response"
                                THEN TaskState("failed", "KeyError")
                                ELSE TaskState("done", "")]
               /\ ready' = Tail(ready) \o <<Callback("done_cb", t)>>
               /\ outer' = outer
    /\ cyc' = [cyc EXCEPT !.fetched = Append(@, Head(ready).task[1])]
    /\ UNCHANGED <<storeVars, all_data, hostVars, modelVars, pc>>

\* a task whose exception takes the callbacks queued behind it with it
FailureDropsQueue(queue, t, e) ==
    IF e # "" THEN <<Callback("done_cb", t)>>
    ELSE Tail(queue) \o <<Callback("done_cb", t)>>

\* a task that ends, with a result or with an exception, schedules its done
\* callbacks behind the callbacks that are queued; the exception is kept in
\* the task and touches no other task
TaskEnds(queue, t, e) == Tail(queue) \o <<Callback("done_cb", t)>>

\* process_fixture, which never suspends: fetch_data awaits nothing.  The
\* k-th fixture of the snapshot has fixture id k and belongs to league 39;
\* its row is written when nothing before the end of the store_prediction
\* call raises.
FixtureStep ==
    /\ LoopTurn("step", 2)
    /\ LET t == Head(ready).task
           ok == all_data.fixtures.response[t[2]]
           e == ProcessFixtureRaises(ok)
       IN /\ status' = [status EXCEPT ![t] =
                            IF e = "" THEN TaskState("done", "")
                            ELSE TaskState("failed", e)]
          /\ cyc' = [cyc EXCEPT !.not_ready = @ \/ (ok /\ clf = NULL),
                                !.stored = IF e = "" THEN @ \cup {t} ELSE @]
          /\ IF e = ""
             THEN /\ \E o \in Outcomes, p \in Probs, now \in Times :
                       predictions' = InsertOrReplace(predictions,
                           PredictionRow(t[2], 39, "Arsenal", "Chelsea", o, p, <<>>, now))
                  /\ last' = [op |-> "store_prediction", fixture_id |-> t[2],
                              had |-> RowState(predictions, t[2])]
             ELSE UNCHANGED <<predictions, last>>
          /\ ready' = TaskEnds(ready, t, e)
    /\ UNCHANGED <<cache, writes, feature_importance, appended>>
    /\ UNCHANGED <<all_data, hostVars, modelVars, pc, outer>>

\* gather's callback on a finished child: the first exception is passed to
\* the waiting task at once; the result is passed when all children are done
GatherCallback ==
    /\ pc \in {"gather", "sleep"}
    /\ ready # <<>>
    /\ Head(ready).kind = "done_cb"
    /\ LET c == Head(ready).task
           p == Parent(c)
       IN IF outer[p].st # "pending"
          THEN /\ outer' = outer
               /\ ready' = Tail(ready)
          ELSE IF status[c].st = "failed"
          THEN /\ outer' = [outer EXCEPT ![p].st = "failed",
                                         ![p].exc = status[c].exc]
               /\ ready' = Tail(ready) \o <<Callback("wakeup", p)>>
          ELSE /\ outer' = [outer EXCEPT ![p].n = @ + 1,
                                         ![p].st = IF AllDone(outer[p].n + 1, outer[p].total)
                                                   THEN "done" ELSE "pending"]
               /\ ready' = Tail(ready)
                             \o (IF AllDone(outer[p].n + 1, outer[p].total)
                                 THEN <<Callback("wakeup", p)>> ELSE <<>>)
    /\ UNCHANGED <<storeVars, all_data, hostVars, modelVars, pc, status, cyc>>

\* process_league resumes from its gather and ends, with the exception of
\* the gather if it has one
LeagueWakeup ==
    /\ LoopTurn("wakeup", 1)
    /\ LET t == Head(ready).task
       IN /\ status' = [status EXCEPT ![t] =
                            IF outer[t].st = "failed"
                            THEN TaskState("failed", outer[t].exc)
                            ELSE TaskState("done", "")]
          /\ ready' = Tail(ready) \o <<Callback("done_cb", t)>>
    /\ UNCHANGED <<storeVars, all_data, hostVars, modelVars, pc, outer, cyc>>

\* an exception leaves the try block of run(): the handler logs it and the
\* loop goes on to asyncio.sleep; an exception the handler does not catch
\* ends run() and the process
Handle(e, history) ==
    IF CaughtByRun(e)
    THEN /\ pc' = "sleep"
         /\ cyc' = [history EXCEPT !.caught = e]
    ELSE /\ pc' = "terminated"
         /\ cyc' = history

\* a run() that goes on at any turn of the loop, its gather resolved or not
AnyCallbackWakesRun(cb) == TRUE

\* await asyncio.gather(*tasks): run() stays suspended until the wakeup of
\* its gather future is the callback the loop runs
WakesRun(cb) == cb = Callback("wakeup", MainTask)

\* run() resumes from predict_matches_for_all_leagues
MainWakeup ==
    /\ pc = "gather"
    /\ ready # <<>>
    /\ WakesRun(Head(ready))
    /\ ready' = Tail(ready)
    /\ IF outer[MainTask].st = "failed"
       THEN Handle(outer[MainTask].exc, cyc)
       ELSE pc' = "update_model" /\ cyc' = cyc
    /\ UNCHANGED <<storeVars, all_data, hostVars, modelVars, status, outer>>

\* update_model: train on the graded predictions, if there are any, then
\* read the feature importances of the classifier and store them
UpdateModel ==
    /\ pc = "update_model"
    /\ IF get_historical_data = {}
       THEN /\ pc' = "evaluate"
            /\ cyc' = [cyc EXCEPT !.retrain = "skipped"]
            /\ UNCHANGED <<modelVars, feature_importance, appended, last>>
       ELSE \E o \in TrainOutcomes :
            /\ scaler' = ScalerAfterTrain(o, TrainColumns)
            /\ clf' = ClfAfterTrain(o, TrainColumns)
            /\ files' \in FilesAfterTrain(o, TrainColumns)
            /\ IF o # "ok"
               THEN /\ Handle(TrainRaises(o), [cyc EXCEPT !.retrain = "failed"])
                    /\ UNCHANGED <<feature_importance, appended, last>>
               ELSE IF FeatureImportanceRaises # ""
               THEN /\ Handle(FeatureImportanceRaises, [cyc EXCEPT !.retrain = "trained"])
                    /\ UNCHANGED <<feature_importance, appended, last>>
               ELSE /\ \E fi \in ImportanceFrames :
                        \E nows \in ClockReadings(Len(fi), LastReading) :
                          /\ feature_importance' =
                                 feature_importance \o FeatureImportanceRows(fi, nows)
                          /\ appended' = Append(appended, [frame |-> fi, nows |-> nows])
                    /\ last' = [op |-> "store_feature_importance"]
                    /\ pc' = "evaluate"
                    /\ cyc' = [cyc EXCEPT !.retrain = "trained", !.snapshots = @ + 1]
    /\ UNCHANGED <<predictions, cache, writes>>
    /\ UNCHANGED <<all_data, hostVars, ready, status, outer>>

\* evaluate_predictions: get_historical_data(timestamp_after=one_week_ago),
\* then model.evaluate on the rows if there are any
EvaluatePredictions ==
    /\ pc = "evaluate"
    /\ \E one_week_ago \in Times :
         LET r == GetHistoricalDataCall(<< <<"timestamp_after", one_week_ago>> >>)
         IN IF r.raised # ""
            THEN Handle(r.raised, [cyc EXCEPT !.evaluate = "raised"])
            ELSE IF r.rows = {}
            THEN pc' = "sleep" /\ cyc' = [cyc EXCEPT !.evaluate = "skipped"]
            ELSE IF PredictRaises(TrainColumns) # ""
            THEN Handle(PredictRaises(TrainColumns), [cyc EXCEPT !.evaluate = "raised"])
            ELSE pc' = "sleep" /\ cyc' = [cyc EXCEPT !.evaluate = "evaluated"]
    /\ UNCHANGED <<storeVars, all_data, hostVars, modelVars, ready, status, outer>>

\* await asyncio.sleep(86400): the timer fires long after the event loop has
\* run every callback that was ready
Sleep ==
    /\ pc = "sleep"
    /\ ready = <<>>
    /\ pc' = "start"
    /\ UNCHANGED <<storeVars, all_data, hostVars, modelVars, ready, status, outer, cyc>>

InitRun ==
    /\ predictions \in InitialTables
    /\ cache = <<>>
    /\ writes = <<>>
    /\ last = [op |-> "init"]
    /\ all_data \in [fixtures : FixturesInputs, standings : StandingsInputs]
    /\ feature_importance = <<>>
    /\ appended = <<>>
    /\ \E m \in LoadedModels :
         /\ clf = m[1]
         /\ scaler = m[2]
         /\ files = [model |-> m[1], scaler |-> m[2], json |-> Some(all_data),
                     csv |-> TRUE]
    /\ football_data = Some(all_data)
    /\ fetch = IdleFetch
    /\ pc = "start"
    /\ ready = <<>>
    /\ status = <<>>
    /\ outer = <<>>
    /\ cyc = FreshCycle

NextRun ==
    \/ RunCycle
    \/ LeagueStep
    \/ FixtureStep
    \/ GatherCallback
    \/ LeagueWakeup
    \/ MainWakeup
    \/ UpdateModel
    \/ EvaluatePredictions
    \/ Sleep

SpecRun == InitRun /\ [][NextRun]_vars

\* the event loop keeps running ready callbacks and timers
FairSpecRun == SpecRun /\ WF_vars(NextRun)

----------------------------------------------------------------------------
(* Process start: the imports and FootballPredictionSystem.__init__ of     *)
(* "python football_prediction_system.py", and the feature engine run as   *)
(* a script, "python feature_engineering.py".                              *)

\* the content of football_data.json when the file is there
SnapshotContents ==
    {[fixtures |-> [kind |-> "response", response |-> <<TRUE>>],
      standings |-> "present"]}

\* the dict {} as .get('fixtures', {}) and .get('standings', {}) see it
EmptyDict ==
    [fixtures |-> [kind |-> "empty", response |-> <<>>], standings |-> "empty"]

\* what a joblib file of the data directory may be at start: missing, not
\* loadable, or a pickled estimator
JoblibFiles == {NULL, Corrupt, Fitted(FeatureColumns, "disk")}

\* the scripts that can be started
EntryPoints == {"fps_import", "fe_import"}

\* feature_engineering.py, module level: football_data is the content of the
\* file, or {} after a FileNotFoundError, and the module goes on
ImportFeatureEngineering ==
    /\ pc \in EntryPoints
    /\ football_data' = IF files.json = NULL THEN Some(EmptyDict) ELSE files.json
    /\ pc' = IF pc = "fps_import" THEN "init" ELSE "fe_main"
    /\ UNCHANGED <<storeVars, all_data, modelVars, ready, status, outer, cyc, fetch>>

\* what joblib.load raises inside load_model
LoadModelRaises(fs) ==
    IF BothExist(fs) /\ ~ (Loads(fs.model) /\ Loads(fs.scaler))
    THEN "UnpicklingError" ELSE ""

\* FootballDatabase() and PredictionModel(): the tables exist afterwards,
\* self.model = None, a fresh scaler, then load_model in its try block
LoadModel ==
    /\ pc = "init"
    /\ clf' = ClfAfterLoad(files, NULL)
    /\ scaler' = ScalerAfterLoad(files, NULL)
    /\ last' = [op |-> "load_model", files |-> files,
                raised |-> IF CaughtByRun(LoadModelRaises(files)) THEN ""
                           ELSE LoadModelRaises(files)]
    /\ pc' = IF LoadModelRaises(files) = "" \/ CaughtByRun(LoadModelRaises(files))
             THEN "load_data" ELSE "terminated"
    /\ UNCHANGED <<predictions, cache, writes, feature_importance, appended>>
    /\ UNCHANGED <<all_data, files, ready, status, outer, cyc, hostVars>>

\* load_data_from_files: json.load of the snapshot, or log and exit()
LoadDataFromFiles ==
    /\ pc = "load_data"
    /\ IF files.json # NULL
       THEN all_data' = files.json[1] /\ pc' = "load_stats"
       ELSE all_data' = all_data /\ pc' = "exited"
    /\ UNCHANGED <<storeVars, modelVars, ready, status, outer, cyc, hostVars>>

\* load_team_stats_from_csv: read_csv of the team statistics, or log and
\* exit(); after it the object is constructed and run() can start
LoadTeamStatsFromCsv ==
    /\ pc = "load_stats"
    /\ pc' = IF files.csv THEN "start" ELSE "exited"
    /\ UNCHANGED <<storeVars, all_data, modelVars, ready, status, outer, cyc, hostVars>>

\* main() of feature_engineering.py: feature_engineering(33, 34, 39) on the
\* module's football_data, printed; from {} every lookup takes its default
FeatureEngineMain ==
    /\ pc = "fe_main"
    /\ last' = [op |-> "feature_engineering",
                from_defaults |-> football_data = Some(EmptyDict)]
    /\ pc' = "fe_done"
    /\ UNCHANGED <<predictions, cache, writes, feature_importance, appended>>
    /\ UNCHANGED <<all_data, modelVars, ready, status, outer, cyc, hostVars>>

InitStart ==
    /\ predictions = {}
    /\ cache = <<>>
    /\ writes = <<>>
    /\ last = [op |-> "init"]
    /\ feature_importance = <<>>
    /\ appended = <<>>
    /\ all_data = EmptyDict
    /\ clf = NULL
    /\ scaler = NULL
    /\ files \in [model : JoblibFiles, scaler : JoblibFiles,
                   json : {NULL} \cup {Some(c) : c \in SnapshotContents},
                   csv : BOOLEAN]
    /\ football_data = NULL
    /\ fetch = IdleFetch
    /\ pc \in EntryPoints
    /\ ready = <<>>
    /\ status = <<>>
    /\ outer = <<>>
    /\ cyc = FreshCycle

NextStart ==
    \/ ImportFeatureEngineering
    \/ LoadModel
    \/ LoadDataFromFiles
    \/ LoadTeamStatsFromCsv
    \/ FeatureEngineMain

SpecStart == InitStart /\ [][NextStart]_vars

----------------------------------------------------------------------------
(* The feature engine (feature_engineering.py).  football_data is a record *)
(* of its four sections, each None when the key is missing; a section and  *)
(* a league entry are dicts.  Numbers are kept as fractions n/d.           *)

Num(x) == [n |-> x, d |-> 1]

\* the teams and leagues feature_engineering is asked about
TeamIds == {33, 34}
FeatureLeagues == {39, 140}

\* head-to-head matches: ISO dates as <<year, month, day>>, the two teams
\* and the goals of a played match
MatchDates == {<<2023, 5, 1>>, <<2023, 11, 20>>}
MatchScores == {<<1, 0>>, <<0, 1>>, <<1, 1>>}
Matches ==
    {m \in [date : MatchDates, home : TeamIds, away : TeamIds,
            goals_home : 0..1, goals_away : 0..1] :
        m.home # m.away /\ <<m.goals_home, m.goals_away>> \in MatchScores}

\* calculate_form: 1 for a W, 0.5 for a D, counted in halves
RECURSIVE FormHalves(_)
FormHalves(form) ==
    IF form = <<>> THEN 0
    ELSE (IF Head(form) = "W" THEN 2 ELSE IF Head(form) = "D" THEN 1 ELSE 0)
         + FormHalves(Tail(form))

calculate_form(form_string) ==
    IF form_string = <<>> THEN Num(0)
    ELSE [n |-> FormHalves(form_string), d |-> 2 * Len(form_string)]

\* a sort that puts the earliest date first
RECURSIVE SortedByDateAsc(_)
SortedByDateAsc(h2h) ==
    IF h2h = <<>> THEN <<>>
    ELSE LET rest == SortedByDateAsc(SubSeq(h2h, 1, Len(h2h) - 1))
             m == h2h[Len(h2h)]
             k == Cardinality({i \in 1..Len(rest) : ~ TextLess(m.date, rest[i].date)})
         IN SubSeq(rest, 1, k) \o <<m>> \o SubSeq(rest, k + 1, Len(rest))

\* sorted(h2h_data, key=lambda x: x['fixture']['date'], reverse=True): the
\* latest date first; the sort is stable, so a match goes behind the
\* matches before it in the list whose date is not earlier than its own
RECURSIVE SortedByDateDesc(_)
SortedByDateDesc(h2h) ==
    IF h2h = <<>> THEN <<>>
    ELSE LET rest == SortedByDateDesc(SubSeq(h2h, 1, Len(h2h) - 1))
             m == h2h[Len(h2h)]
             k == Cardinality({i \in 1..Len(rest) : ~ TextLess(rest[i].date, m.date)})
         IN SubSeq(rest, 1, k) \o <<m>> \o SubSeq(rest, k + 1, Len(rest))

\* the slice [:n] for n >= 0
Take(seq, n) == SubSeq(seq, 1, IF n < Len(seq) THEN n ELSE Len(seq))

\* 3 if the team won at home or away, else 1 if the goals are equal, else 0
MatchPoints(m, team_id) ==
    IF \/ (m.home = team_id /\ m.goals_home > m.goals_away)
       \/ (m.away = team_id /\ m.goals_away > m.goals_home)
    THEN 3
    ELSE IF m.goals_home = m.goals_away THEN 1 ELSE 0

RECURSIVE SumPoints(_, _)
SumPoints(matches, team_id) ==
    IF matches = <<>> THEN 0
    ELSE MatchPoints(Head(matches), team_id) + SumPoints(Tail(matches), team_id)

calculate_recent_performance(h2h_data, team_id, num_matches) ==
    IF h2h_data = <<>> THEN Num(0)
    ELSE LET recent_matches == Take(SortedByDateDesc(h2h_data), num_matches)
         IN IF recent_matches = <<>> THEN Num(0)
            ELSE [n |-> SumPoints(recent_matches, team_id),
                  d |-> Len(recent_matches) * 3]

\* the lists, teams and window sizes calculate_recent_performance is
\* called with
H2HLists == UNION {[1..n -> Matches] : n \in 0..MaxMatches}
WindowSizes == {0, 2, 5}

\* a call of calculate_recent_performance on the arguments it was given
CalculateRecentPerformance ==
    /\ last.op = "call"
    /\ last' = [op |-> "calculate_recent_performance", h2h_data |-> last.h2h_data,
                team_id |-> last.team_id, num_matches |-> last.num_matches,
                result |-> calculate_recent_performance(last.h2h_data, last.team_id,
                                                        last.num_matches)]
    /\ UNCHANGED <<predictions, cache, writes, feature_importance, appended>>
    /\ UNCHANGED runVars

\* the standings rows, injuries, head-to-head list and team statistics of a
\* snapshot that has them (the nested statistics dicts are kept flat)
StandingsRows ==
    << [team |-> 33, rank |-> 3, form |-> <<"W", "W", "D", "L", "W">>, goalsDiff |-> 10],
       [team |-> 34, rank |-> 10, form |-> <<"L", "L", "D", "W", "L">>, goalsDiff |-> -4] >>
InjuryRows == << [team |-> 33], [team |-> 34], [team |-> 33] >>
H2HRows ==
    << [date |-> <<2023, 5, 1>>, home |-> 33, away |-> 34, goals_home |-> 1, goals_away |-> 0],
       [date |-> <<2023, 11, 20>>, home |-> 34, away |-> 33, goals_home |-> 1, goals_away |-> 1] >>
TeamStatistics ==
    << <<"33", [clean_sheet |-> 4, attack |-> 2, defense |-> 1]>>,
       <<"34", [clean_sheet |-> 1, attack |-> 1, defense |-> 2]>> >>

\* an entry of a section: a dict without 'response', or with a response list
Entries(rows) == {<<>>, << <<"response", <<>> >> >>, << <<"response", rows>> >>}

\* a section keyed by league id or by "home-away": missing, without the key,
\* or with an entry for it
Sections(key, rows) ==
    {NULL, Some(<<>>)} \cup {Some(<< <<key, e>> >>) : e \in Entries(rows)}

\* the team_statistics section: per league, a dict keyed by team id
StatisticsSections ==
    {NULL, Some(<<>>), Some(<< <<"39", <<>> >> >>), Some(<< <<"39", TeamStatistics>> >>)}

FootballData ==
    [team_statistics : StatisticsSections,
     standings : Sections("39", StandingsRows),
     injuries : Sections("39", InjuryRows),
     h2h : Sections("33-34", H2HRows)]

\* next((team for team in standings_data if team['team']['id'] == team_id), {})
FirstOfTeam(rows, team_id) ==
    IF \E i \in 1..Len(rows) : rows[i].team = team_id
    THEN Some(rows[CHOOSE i \in 1..Len(rows) :
                     /\ rows[i].team = team_id
                     /\ \A j \in 1..(i - 1) : rows[j].team # team_id])
    ELSE NULL

\* the value at entry['response'], with the KeyError of a dict without it
Subscript(entry, key) ==
    IF DictGet(entry, key) = NULL THEN [raised |-> "KeyError", value |-> <<>>]
    ELSE [raised |-> "", value |-> DictGet(entry, key)[1]]

\* get_team_data(team_id, league_id): (team_stats, standings), {} for each
\* that is not found
get_team_data(fd, team_id, league_id) ==
    LET lg == ToString(league_id)
        team_stats ==
            IF fd.team_statistics # NULL /\ DictGet(fd.team_statistics[1], lg) # NULL
            THEN DictGet(DictGet(fd.team_statistics[1], lg)[1], ToString(team_id))
            ELSE NULL
        found == fd.standings # NULL /\ DictGet(fd.standings[1], lg) # NULL
        resp == IF found THEN Subscript(DictGet(fd.standings[1], lg)[1], "response")
                ELSE [raised |-> "", value |-> <<>>]
    IN [raised |-> resp.raised, team_stats |-> team_stats,
        standings |-> IF resp.raised = "" THEN FirstOfTeam(resp.value, team_id)
                      ELSE NULL]

\* get_injuries(team_id, league_id): the injuries of the team, [] when the
\* league has none
get_injuries(fd, team_id, league_id) ==
    LET lg == ToString(league_id)
        found == fd.injuries # NULL /\ DictGet(fd.injuries[1], lg) # NULL
        resp == IF found THEN Subscript(DictGet(fd.injuries[1], lg)[1], "response")
                ELSE [raised |-> "", value |-> <<>>]
    IN [raised |-> resp.raised,
        count |-> Cardinality({i \in 1..Len(resp.value) : resp.value[i].team = team_id})]

\* get_h2h_data(home_team_id, away_team_id): the list under "home-away"
get_h2h_data(fd, home_team_id, away_team_id) ==
    LET h2h_key == ToString(home_team_id) \o "-" \o ToString(away_team_id)
        found == fd.h2h # NULL /\ DictGet(fd.h2h[1], h2h_key) # NULL
    IN IF found THEN Subscript(DictGet(fd.h2h[1], h2h_key)[1], "response")
       ELSE [raised |-> "", value |-> <<>>]

\* the first exception of a sequence of calls, "" when none raised
RECURSIVE FirstRaised(_)
FirstRaised(calls) ==
    IF calls = <<>> THEN ""
    ELSE IF Head(calls).raised # "" THEN Head(calls).raised
    ELSE FirstRaised(Tail(calls))

\* feature_engineering(home_team_id, away_team_id, league_id): the one-row
\* frame as <<column, value>> pairs in the order of the dict, or the
\* exception of one of the lookups
feature_engineering(fd, home_team_id, away_team_id, league_id) ==
    LET home == get_team_data(fd, home_team_id, league_id)
        away == get_team_data(fd, away_team_id, league_id)
        home_injuries == get_injuries(fd, home_team_id, league_id)
        away_injuries == get_injuries(fd, away_team_id, league_id)
        h2h_data == get_h2h_data(fd, home_team_id, away_team_id)
        raised == FirstRaised(<<home, away, home_injuries, away_injuries, h2h_data>>)
        \* dict.get(key, 0) on a standings row or a statistics dict that may be {}
        RankOf(row) == IF row = NULL THEN 0 ELSE row[1].rank
        FormOf(row) == IF row = NULL THEN <<>> ELSE row[1].form
        GoalsDiffOf(row) == IF row = NULL THEN 0 ELSE row[1].goalsDiff
        CleanSheetsOf(stats) == IF stats = NULL THEN 0 ELSE stats[1].clean_sheet
        AttackOf(stats) == IF stats = NULL THEN 0 ELSE stats[1].attack
        DefenseOf(stats) == IF stats = NULL THEN 0 ELSE stats[1].defense
    IN IF raised # "" THEN [raised |-> raised, features |-> <<>>]
       ELSE [raised |-> "",
             features |->
               << <<"home_team_rank", Num(RankOf(home.standings))>>,
                  <<"away_team_rank", Num(RankOf(away.standings))>>,
                  <<"home_team_form", calculate_form(FormOf(home.standings))>>,
                  <<"away_team_form", calculate_form(FormOf(away.standings))>>,
                  <<"home_team_injuries", Num(home_injuries.count)>>,
                  <<"away_team_injuries", Num(away_injuries.count)>>,
                  <<"home_team_goal_diff", Num(GoalsDiffOf(home.standings))>>,
                  <<"away_team_goal_diff", Num(GoalsDiffOf(away.standings))>>,
                  <<"home_team_clean_sheets", Num(CleanSheetsOf(home.team_stats))>>,
                  <<"away_team_clean_sheets", Num(CleanSheetsOf(away.team_stats))>>,
                  <<"home_team_attack", Num(AttackOf(home.team_stats))>>,
                  <<"away_team_attack", Num(AttackOf(away.team_stats))>>,
                  <<"home_team_defense", Num(DefenseOf(home.team_stats))>>,
                  <<"away_team_defense", Num(DefenseOf(away.team_stats))>>,
                  <<"home_team_recent_performance",
                    calculate_recent_performance(h2h_data.value, home_team_id, 5)>>,
                  <<"away_team_recent_performance",
                    calculate_recent_performance(h2h_data.value, away_team_id, 5)>> >>]

FeatureEngineering ==
    /\ football_data # NULL
    /\ \E h \in TeamIds, a \in TeamIds, l \in FeatureLeagues :
          /\ h # a
          /\ last' = [op |-> "feature_engineering", home_team_id |-> h,
                      away_team_id |-> a, league_id |-> l,
                      out |-> feature_engineering(football_data[1], h, a, l)]
    /\ UNCHANGED <<predictions, cache, writes, feature_importance, appended>>
    /\ UNCHANGED runVars

\* the module after its import, with a snapshot of any of the shapes
InitFeatures ==
    /\ predictions = {}
    /\ cache = <<>>
    /\ writes = <<>>
    /\ last = [op |-> "init"]
    /\ feature_importance = <<>>
    /\ appended = <<>>
    /\ all_data = EmptyDict
    /\ clf = NULL
    /\ scaler = NULL
    /\ files = [model |-> NULL, scaler |-> NULL, json |-> Some(all_data), csv |-> TRUE]
    /\ football_data \in {Some(fd) : fd \in FootballData}
    /\ fetch = IdleFetch
    /\ pc = "start"
    /\ ready = <<>>
    /\ status = <<>>
    /\ outer = <<>>
    /\ cyc = FreshCycle

SpecFeatures == InitFeatures /\ [][FeatureEngineering]_vars

----------------------------------------------------------------------------
(* The store under its callers: the predictions table (SpecPred) and the   *)
(* cache table (SpecCache).                                                *)

\* the store of a fresh database file
InitStore ==
    /\ predictions = {}
    /\ cache = <<>>
    /\ writes = <<>>
    /\ last = [op |-> "init"]
    /\ feature_importance = <<>>
    /\ appended = <<>>

\* the orchestrator of a store used on its own: no snapshot data, no model
\* files, run() not started
InitIdle ==
    /\ all_data = [fixtures |-> [kind |-> "empty", response |-> <<>>],
                   standings |-> "empty"]
    /\ clf = NULL
    /\ scaler = NULL
    /\ files = [model |-> NULL, scaler |-> NULL, json |-> Some(all_data),
                csv |-> TRUE]
    /\ football_data = Some(all_data)
    /\ fetch = IdleFetch
    /\ pc = "start"
    /\ ready = <<>>
    /\ status = <<>>
    /\ outer = <<>>
    /\ cyc = FreshCycle

Init == InitStore /\ InitIdle

StorePrediction ==
    \E f \in FixtureIds, l \in LeagueIds, h \in HomeTeams, a \in AwayTeams,
       o \in Outcomes, p \in Probs, w \in WeatherInputs, now \in Times :
        store_prediction(f, l, h, a, o, p, w, now)

UpdatePredictionAccuracy ==
    \E f \in FixtureIds, o \in {NULL} \cup {Some(x) : x \in Outcomes} :
        update_prediction_accuracy(f, o)

NextPred == StorePrediction \/ UpdatePredictionAccuracy

SpecPred == Init /\ [][NextPred]_vars

SpecCache == Init /\ [][NextCache]_vars

SpecImportance == Init /\ [][NextImportance]_vars

SpecFetch == Init /\ [][NextFetch]_vars

\* every step of get_data that is enabled is taken
FairSpecFetch == SpecFetch /\ WF_vars(NextFetch)

\* calculate_recent_performance about to be called on a list, a team and a
\* window size
InitPerformance ==
    /\ predictions = {}
    /\ cache = <<>>
    /\ writes = <<>>
    /\ last \in [op : {"call"}, h2h_data : H2HLists, team_id : TeamIds,
                  num_matches : WindowSizes]
    /\ feature_importance = <<>>
    /\ appended = <<>>
    /\ InitIdle

SpecPerformance == InitPerformance /\ [][CalculateRecentPerformance]_vars

----------------------------------------------------------------------------
(* Claims about the predictions table, checked under SpecPred.             *)

RowsOf(fixture_id) == {r \in predictions : r.fixture_id = fixture_id}

\* C1: after any sequence of store_prediction and update_prediction_accuracy
\* calls the table holds at most one row per fixture id, and right after an
\* upsert (a first one or a repeated one) exactly one row for that fixture id.
C1_OneRowPerFixture ==
    /\ \A f \in FixtureIds : Cardinality(RowsOf(f)) <= 1
    /\ last.op = "store_prediction" => Cardinality(RowsOf(last.fixture_id)) = 1

\* a fixture was upserted again while its row existed, next to another row
C1_Witness ==
    /\ last.op = "store_prediction"
    /\ last.had # "absent"
    /\ Cardinality(RowsOf(last.fixture_id)) = 1
    /\ Cardinality(predictions) = 2

\* C2: store_prediction on a fixture whose row has a recorded
\* actual_outcome/accuracy pair leaves that pair recorded (not reset to NULL).
C2_RepredictKeepsGrade ==
    (last.op = "store_prediction" /\ last.had = "graded") =>
        \A r \in RowsOf(last.fixture_id) :
            r.actual_outcome # NULL /\ r.accuracy # NULL

\* C3: in every row accuracy is non-NULL only if actual_outcome is non-NULL,
\* and a non-NULL actual_outcome comes with accuracy 1 when it equals the
\* row's predicted_outcome and 0 otherwise.
C3_AccuracyMatchesOutcome ==
    \A r \in predictions :
        /\ r.accuracy # NULL => r.actual_outcome # NULL
        /\ r.actual_outcome # NULL =>
              r.accuracy = Some(IF r.predicted_outcome = r.actual_outcome
                                THEN 1 ELSE 0)

\* C4: update_prediction_accuracy for a fixture id without a row leaves the
\* whole table as it was: no row is created and no row is modified.  (The
\* call has no failure path in the code: it reads one row and returns.)
C4_UnknownFixtureNoOp ==
    [][\A f \in FixtureIds, o \in {NULL} \cup {Some(x) : x \in Outcomes} :
         (RowState(predictions, f) = "absent" /\ update_prediction_accuracy(f, o))
            => predictions' = predictions]_vars

\* an outcome was reported for a fixture without a row while the table holds
\* another fixture's row, and the fixture still has no row
C4_Witness ==
    /\ last.op = "update_prediction_accuracy"
    /\ last.had = "absent"
    /\ RowsOf(last.fixture_id) = {}
    /\ predictions # {}

\* the graded rows of one league
LeagueGraded(league_id) ==
    {r \in predictions : r.league_id = league_id /\ r.actual_outcome # NULL}

\* C7: for every league id, 0 included, get_prediction_accuracy(league_id) is
\* the arithmetic mean of accuracy over that league's graded rows, and 0 when
\* the league has none; the rows of other leagues do not contribute.
C7_MeanAccuracyPerLeague ==
    \A l \in LeagueIds :
        LET res == get_prediction_accuracy(Some(l))
            rows == LeagueGraded(l)
        IN IF rows = {} THEN res.n = 0
           ELSE res.n * Cardinality(rows) = SumAccuracy(rows) * res.d

----------------------------------------------------------------------------
(* Claims about the cache table, checked under SpecCache.                  *)

\* one clock reading is later than another
TimeLater(t1, t2) == t1.s > t2.s \/ (t1.s = t2.s /\ t1.us > t2.us)

\* the calls that wrote an entry for exactly this endpoint and this dict
WritesFor(endpoint, params) ==
    {i \in 1..Len(writes) : /\ writes[i].endpoint = endpoint
                            /\ writes[i].params = params}

\* C5: get_cached_data(endpoint, params) returns the payload of an entry with
\* the latest timestamp among all entries ever written for that exact
\* (endpoint, params) key, whatever was written afterwards or for other keys,
\* and None when no entry was ever written for the key.
C5_GetCachedLatest ==
    last.op = "get_cached_data" =>
        LET W == WritesFor(last.endpoint, last.params)
        IN IF W = {} THEN last.result = NULL
           ELSE \E i \in W :
                  /\ \A j \in W : ~ TimeLater(writes[j].now, writes[i].now)
                  /\ last.result = Some(writes[i].data)

\* the key was written twice, the later-stamped entry first, then another key
\* was written, and the lookup returned the payload of the later-stamped entry
C5_Witness ==
    /\ last.op = "get_cached_data"
    /\ Len(writes) = 3
    /\ WritesFor(last.endpoint, last.params) = {1, 2}
    /\ TimeLater(writes[1].now, writes[2].now)
    /\ writes[1].data # writes[2].data
    /\ last.result = Some(writes[1].data)

\* two dicts hold the same key/value pairs
SameDict(p1, p2) ==
    {p1[i] : i \in 1..Len(p1)} = {p2[i] : i \in 1..Len(p2)}

\* C6: right after cache_data(endpoint, p1, d), get_cached_data(endpoint, p2)
\* returns d for every p2 holding the same key/value pairs as p1, whatever the
\* insertion order of the keys, earlier entries and equal timestamps.
C6_LastWriteWinsStructural ==
    (/\ last.op = "get_cached_data"
     /\ writes # <<>>
     /\ writes[Len(writes)].endpoint = last.endpoint
     /\ SameDict(writes[Len(writes)].params, last.params))
        => last.result = Some(writes[Len(writes)].data)

----------------------------------------------------------------------------
(* Claims about the run loop, checked under SpecRun and FairSpecRun.       *)

\* the clock reading an isoformat text stands for
IsoParse(text) == [s |-> text[1], us |-> IF Len(text) > 1 THEN text[2] ELSE 0]

\* the graded rows with a timestamp at or after a bound
HistoricalSince(bound) ==
    {r \in predictions : /\ r.actual_outcome # NULL
                         /\ ~ TimeLater(bound, IsoParse(r.timestamp))}

\* C8: the evaluate step asks get_historical_data for the graded rows at or
\* after a time bound (now minus 7 days), gets exactly those rows, and
\* evaluates the model on them when there are any (and skips otherwise).
C8_EvaluateOnRecentGraded ==
    cyc.evaluate # "pending" =>
        \E bound \in Times :
            cyc.evaluate = IF HistoricalSince(bound) = {} THEN "skipped"
                           ELSE "evaluated"

\* C9: whatever exception a step of a cycle raises, run() does not end: every
\* started cycle is followed by the sleep, and every sleep by a new cycle.
C9_CycleAlwaysContinues ==
    /\ [](pc # "terminated")
    /\ (pc = "start") ~> (pc = "sleep")
    /\ (pc = "sleep") ~> (pc = "start")

\* the loop is in its sleep after a cycle whose training raised
C9_Witness ==
    /\ pc = "sleep"
    /\ cyc.retrain = "failed"
    /\ cyc.caught # ""

\* C10: a predict call made while no model is loaded fails for its fixture
\* only: the cycle is not abandoned and still reaches the retrain step.
C10_NotReadyConfinedToFixture ==
    (pc = "sleep" /\ cyc.not_ready) => cyc.retrain # "pending"

\* the model is Ready with a pair fitted on the feature columns, standings
\* are there and every fixture of the response list is well formed
ReadyAndAvailable ==
    /\ clf # NULL
    /\ scaler # NULL
    /\ clf[1].cols = FeatureColumns
    /\ scaler[1].cols = FeatureColumns
    /\ all_data.standings = "present"
    /\ all_data.fixtures.kind = "response"
    /\ \A k \in 1..Len(all_data.fixtures.response) : all_data.fixtures.response[k]

\* C11: in a cycle where the model is Ready and the fixtures and standings of
\* a league are available, every fixture of the league eventually has its
\* prediction row written to the store by that cycle.
C11_EveryFixtureStored ==
    (pc = "gather" /\ ReadyAndAvailable)
        ~> (\A k \in 1..Len(all_data.fixtures.response) :
                FixtureTask(39, k) \in cyc.stored)

\* the classifier and the scaler in use were fitted together: on the same
\* columns, by the same training run or the same restore
SameOrigin ==
    /\ (clf = NULL) <=> (scaler = NULL)
    /\ clf # NULL => (clf[1].origin = scaler[1].origin /\ clf[1].cols = scaler[1].cols)

\* C12: the classifier and the scaler used by predict and evaluate are at
\* every moment a pair produced together by one completed training run or
\* restored together from disk, and a train call that fails at any step
\* leaves the classifier and the scaler in use as they were.
C12_PairReplacedTogether ==
    /\ []SameOrigin
    /\ [][(pc = "update_model" /\ cyc'.retrain = "failed")
             => (clf' = clf /\ scaler' = scaler)]_vars

\* C13: the columns the retrain step fits the scaler and the classifier on
\* are exactly the feature columns, names and order, that process_fixture
\* passes to predict, and no predict call is made with columns other than
\* those the model was fitted on.
C13_TrainedOnFeatureColumns ==
    /\ (scaler # NULL /\ scaler[1].origin = "train") => scaler[1].cols = FeatureColumns
    /\ (clf # NULL /\ clf[1].origin = "train") => clf[1].cols = FeatureColumns
    /\ \A t \in DOMAIN status : Len(t) = 2 => status[t].exc # "ValueError"

\* every league task of the cycle has fetched, every league and fixture task
\* has ended, and no callback is left to run
AllTasksCompleted ==
    /\ cyc.fetched = TopLeagues
    /\ \A i \in 1..Len(TopLeagues) : LeagueTask(TopLeagues[i]) \in DOMAIN status
    /\ \A t \in DOMAIN status : status[t].st \in {"done", "failed"}
    /\ ready = <<>>

\* no process_fixture body runs and no prediction row is written in the step
NothingPersisted ==
    /\ predictions' = predictions
    /\ cyc'.stored = cyc.stored
    /\ \A t \in DOMAIN status : Len(t) = 2 => status'[t] = status[t]

C15_RetrainSnapshot ==
    /\ cyc.retrain = "skipped" =>
          /\ cyc.snapshots = 0
          /\ pc = "evaluate" \/ cyc.evaluate # "pending"
    /\ cyc.retrain = "failed" => cyc.snapshots = 0
    /\ cyc.retrain = "trained" => cyc.snapshots = 1

\* the fixtures or the standings the league tasks fetch are absent or empty
Unavailable == all_data.fixtures.kind = "empty" \/ all_data.standings = "empty"

\* C16: when the fixtures or the standings of a league are absent or empty,
\* process_league starts no fixture task and stores no prediction, raises
\* nothing and fetches once only, and every league task of the cycle is run
\* and ends normally.
C16_UnavailableLeagueSkipped ==
    Unavailable =>
        /\ \A t \in DOMAIN status :
              /\ Len(t) = 1
              /\ status[t].st \in {"scheduled", "done"}
              /\ status[t].exc = ""
        /\ cyc.stored = {}
        /\ last.op # "store_prediction"
        /\ \A i \in 1..Len(cyc.fetched), j \in 1..Len(cyc.fetched) :
              i # j => cyc.fetched[i] # cyc.fetched[j]
        /\ pc \in {"update_model", "evaluate", "sleep"} =>
              /\ cyc.fetched = TopLeagues
              /\ \A i \in 1..Len(TopLeagues) :
                    status[LeagueTask(TopLeagues[i])].st = "done"

\* the standings are empty while the snapshot lists fixtures, and the cycle
\* has come to the retrain step with the six league tasks done
C16_Witness ==
    /\ pc = "update_model"
    /\ all_data.standings = "empty"
    /\ all_data.fixtures.kind = "response"
    /\ Len(all_data.fixtures.response) > 0
    /\ \A i \in 1..Len(TopLeagues) : status[LeagueTask(TopLeagues[i])].st = "done"

----------------------------------------------------------------------------
(* Claims about get_data, checked under FairSpecFetch.                     *)

\* the positions of the requests in the trace of the call
RequestsAt == {i \in 1..Len(fetch.trace) : fetch.trace[i] = "request"}

\* what the call has done so far is what the retry loop allows: at most
\* MAX_RETRIES requests, a delay between any two of them, nothing after a
\* successful request but the return of its data, None after MAX_RETRIES
\* failed requests, and no exception out of get_data
RetryDiscipline ==
    /\ Cardinality(RequestsAt) <= MAX_RETRIES
    /\ fetch.pc # "raised"
    /\ \A i \in RequestsAt, j \in RequestsAt :
          i < j => \E k \in i..j : fetch.trace[k] = "delay"
    /\ \A i \in 1..Len(fetch.trace) :
          fetch.trace[i] = "ok" =>
              /\ i = Len(fetch.trace)
              /\ fetch.pc = "returned"
              /\ fetch.result # NULL
    /\ (fetch.pc = "returned" /\ fetch.trace[Len(fetch.trace)] # "ok") =>
              /\ fetch.result = NULL
              /\ Cardinality(RequestsAt) = MAX_RETRIES

\* C17: get_data always terminates after at most MAX_RETRIES requests: it
\* returns the data of the first successful request and sends no request
\* after it, waits the delay between consecutive requests, and returns None,
\* raising nothing, when every request fails.
C17_GetDataTerminates ==
    /\ []RetryDiscipline
    /\ (fetch.pc = "request") ~> (fetch.pc = "returned")

----------------------------------------------------------------------------
(* Claims about the feature_importance table, checked under                *)
(* SpecImportance.                                                         *)

\* the rows of a frame
FrameRows(frame) == {frame[i] : i \in 1..Len(frame)}

\* C18: after any sequence of store_feature_importance calls,
\* get_feature_importance returns exactly the rows of the frame stored last,
\* all of them and no row of an earlier frame, and no row when nothing was
\* ever stored.
C18_LatestSnapshot ==
    last.op = "get_feature_importance" =>
        FrameRows(last.result) =
            IF appended = <<>> THEN {}
            ELSE FrameRows(appended[Len(appended)].frame)

----------------------------------------------------------------------------
(* Claims about the process start, checked under SpecStart.                *)

\* C19: load_model raises nothing and modifies no file; it leaves the model
\* without a classifier whenever the classifier file or the scaler file is
\* missing or does not load, and has the classifier and the scaler of the
\* two files only when both exist and load.
C19_RestoreNeedsBothFiles ==
    last.op = "load_model" =>
        /\ last.raised = ""
        /\ pc # "terminated"
        /\ files = last.files
        /\ clf # NULL <=> (BothExist(files) /\ Loads(files.model) /\ Loads(files.scaler))
        /\ clf # NULL => (clf = files.model /\ scaler = files.scaler)

\* the classifier file loaded, the scaler file did not, and load_model has
\* left the model without a classifier
C19_Witness ==
    /\ last.op = "load_model"
    /\ Loads(files.model)
    /\ files.scaler = Corrupt
    /\ clf = NULL

\* C20: when football_data.json is missing at start, the process ends before
\* a cycle starts: neither the orchestrator nor the feature engine goes on to
\* fetch, build features or predict from empty or undefined data.
C20_NoSnapshotNoWork ==
    files.json = NULL => (pc # "start" /\ last.op # "feature_engineering")

----------------------------------------------------------------------------
(* Claims about the feature engine, checked under SpecFeatures and         *)
(* SpecPerformance.                                                        *)

\* the value of a column of the frame
FeatureValue(features, name) ==
    features[CHOOSE i \in 1..Len(features) : features[i][1] = name][2]

\* the section has nothing for the key: it is missing, has no entry for the
\* key, or its entry has no response list
NoResponse(section, key) ==
    \/ section = NULL
    \/ DictGet(section[1], key) = NULL
    \/ DictGet(DictGet(section[1], key)[1], "response") = NULL

\* C21: feature_engineering never raises when team statistics, standings,
\* injuries or head-to-head data are absent, a league entry without its
\* response list included; every field whose source is absent is 0, and the
\* frame always has the same 16 columns in the same order.
C21_AbsentDataGivesZeros ==
    last.op = "feature_engineering" =>
        LET fd == football_data[1]
            lg == ToString(last.league_id)
            key == ToString(last.home_team_id) \o "-" \o ToString(last.away_team_id)
            f == last.out.features
            Zero(names) == \A name \in names : FeatureValue(f, name) = Num(0)
        IN /\ last.out.raised = ""
           /\ [i \in 1..Len(f) |-> f[i][1]] = FeatureColumns
           /\ NoResponse(fd.standings, lg) =>
                  Zero({"home_team_rank", "away_team_rank", "home_team_form",
                        "away_team_form", "home_team_goal_diff", "away_team_goal_diff"})
           /\ NoResponse(fd.injuries, lg) =>
                  Zero({"home_team_injuries", "away_team_injuries"})
           /\ NoResponse(fd.h2h, key) =>
                  Zero({"home_team_recent_performance", "away_team_recent_performance"})
           /\ (fd.team_statistics = NULL \/ DictGet(fd.team_statistics[1], lg) = NULL) =>
                  Zero({"home_team_clean_sheets", "away_team_clean_sheets",
                        "home_team_attack", "away_team_attack",
                        "home_team_defense", "away_team_defense"})

\* the points the claim gives a match: 3 to the winner, 1 for a draw
ClaimPoints(m, team) ==
    CASE m.goals_home = m.goals_away -> 1
      [] m.goals_home > m.goals_away -> IF m.home = team THEN 3 ELSE 0
      [] OTHER -> IF m.away = team THEN 3 ELSE 0

RECURSIVE WindowPoints(_, _, _)
WindowPoints(h2h, window, team) ==
    IF window = {} THEN 0
    ELSE LET i == CHOOSE j \in window : TRUE
         IN ClaimPoints(h2h[i], team) + WindowPoints(h2h, window \ {i}, team)

\* the sets of up to size positions of the list that hold its latest dates
LatestWindows(h2h, size) ==
    {w \in SUBSET (1..Len(h2h)) :
        /\ Cardinality(w) = IF size < Len(h2h) THEN size ELSE Len(h2h)
        /\ \A i \in w, j \in (1..Len(h2h)) \ w : ~ TextLess(h2h[i].date, h2h[j].date)}

\* C22: calculate_recent_performance considers only the up-to-num_matches
\* matches with the latest dates, scores 3 for a win of the team, 1 for a
\* draw and 0 for a loss, and returns the sum over 3 times the number of
\* matches considered; the result is in [0, 1], 0 for an empty list and 1
\* for a team that won all of its last 5 matches.
C22_RecentPerformance ==
    last.op = "calculate_recent_performance" =>
        LET h2h == last.h2h_data
            r == last.result
        IN /\ \E w \in LatestWindows(h2h, last.num_matches) :
                 IF w = {} THEN r = Num(0)
                 ELSE /\ r.n = WindowPoints(h2h, w, last.team_id)
                      /\ r.d = 3 * Cardinality(w)
           /\ 0 <= r.n /\ r.n <= r.d /\ r.d > 0
           /\ h2h = <<>> => r.n = 0
           /\ (/\ h2h # <<>>
               /\ last.num_matches = 5
               /\ \A i \in 1..Len(h2h) : ClaimPoints(h2h[i], last.team_id) = 3) => r.n = r.d

\* a list longer than the window whose first match is the earliest and was
\* lost, and whose two later matches were won: the result is 6/6
C22_Witness ==
    /\ last.op = "calculate_recent_performance"
    /\ Len(last.h2h_data) = 3
    /\ last.num_matches = 2
    /\ last.h2h_data[1].date = <<2023, 5, 1>>
    /\ ClaimPoints(last.h2h_data[1], last.team_id) = 0
    /\ \A i \in 2..3 : last.h2h_data[i].date = <<2023, 11, 20>>
    /\ last.result = [n |-> 6, d |-> 6]

----------------------------------------------------------------------------
(* Claims about the fan-out of a cycle and about the artifact files,       *)
(* checked under SpecRun.                                                  *)

\* the process_fixture tasks of the cycle
FixtureTasks == {t \in DOMAIN status : Len(t) = 2}

\* a process_fixture task of the cycle has raised
SomeFixtureFailed == \E t \in FixtureTasks : status[t].st = "failed"

\* C24: when one fixture task of a cycle raises, its sibling fixture tasks
\* of the same league and of the other leagues are not cancelled: each one
\* that has not run yet stays queued, each has run to its own completion or
\* failure when the loop has nothing left to run, and no step that follows
\* the failure removes a row of the predictions table.
C24_FailureIsolated ==
    /\ [](SomeFixtureFailed =>
             \A t \in FixtureTasks :
                /\ status[t].st \in {"scheduled", "done", "failed"}
                /\ status[t].st = "scheduled" =>
                       \E i \in 1..Len(ready) : ready[i] = Callback("step", t)
                /\ ready = <<>> => status[t].st \in {"done", "failed"})
    /\ [][SomeFixtureFailed =>
             \A r \in predictions :
                \E r2 \in predictions' : r2.fixture_id = r.fixture_id]_vars

\* the first fixture of league 39 lacked a field and raised KeyError, the
\* second one ran after it and ended with its own exception, all twelve
\* fixture tasks of the cycle have ended, and run() has caught the failure
C24_Witness ==
    /\ pc = "sleep"
    /\ ready = <<>>
    /\ cyc.caught # ""
    /\ Cardinality(FixtureTasks) = 2 * Len(TopLeagues)
    /\ \A t \in FixtureTasks : status[t].st = "failed"
    /\ status[FixtureTask(39, 1)].exc = "KeyError"
    /\ status[FixtureTask(39, 2)].exc # "KeyError"
    /\ predictions # {}

\* C25: whenever the classifier file and the scaler file both exist, they
\* were written by the same save_model call (or are the pair the process
\* found at its start), also after a save_model in which a write failed or
\* the process was stopped between the two writes.
C25_CoherentPair ==
    BothExist(files) =>
        /\ files.model[1].origin = files.scaler[1].origin
        /\ files.model[1].cols = files.scaler[1].cols

====
